---- MODULE Spec2Model ----
(***************************************************************************)
(* The program of src/App.tsx in four parts.                               *)
(*                                                                         *)
(* Spec: the scan workflow, that is the Scanning component (file staging,  *)
(* analysis, results display, save, reset), the App component that owns    *)
(* the current section and the saved-scans list, and the browser services  *)
(* they use (object URLs, timers, FileReader, the analysis collaborator).  *)
(* One action is one event-loop task: an event handler together with the   *)
(* re-render and effect clean-ups React runs before the next task. Time is *)
(* counted in steps of 100 ms. FairSpec adds the progress of the timers    *)
(* and promises.                                                           *)
(*                                                                         *)
(* CounterSpec: the useAnimatedCounter hooks of Scanning.                  *)
(* AngleSpec: normalizeAngle.                                              *)
(* FlockSpec: SwimCanvas, the flocking engine behind every section.        *)
(*                                                                         *)
(* Each part leaves the variables of the other parts as they are.          *)
(***************************************************************************)
EXTENDS Integers, Sequences, FiniteSets, TLC

\* ---- bounds of the exploration ----
MaxTime == 22      \* the clock stops at 2200 ms
MaxScans == 2      \* analyses started in one run
MaxUrls == 3       \* object URLs created in one run

\* ---- program constants (100 ms units) ----
ScanDelay == 20    \* setTimeout(resolve, 2000)
ShowDelay == 1     \* setTimeout(() => setShowResults(true), 100)

null == "null"

\* ---- src/types.ts ----
Home == "home"
About == "about"
ScanningSection == "scanning"
SavedData == "saved data"
Section == {Home, About, ScanningSection, SavedData}

\* Files the user can pick or drop: two images and one text document.
Files == {"a.jpg", "b.png", "notes.txt"}

\* File.type, as a sequence of characters.
FileType(f) ==
    CASE f = "a.jpg" -> <<"i","m","a","g","e","/","j","p","e","g">>
      [] f = "b.png" -> <<"i","m","a","g","e","/","p","n","g">>
      [] OTHER       -> <<"t","e","x","t","/","p","l","a","i","n">>

\* String.prototype.startsWith
startsWith(s, prefix) ==
    /\ Len(s) >= Len(prefix)
    /\ SubSeq(s, 1, Len(prefix)) = prefix

\* file && file.type.startsWith('image/')
isImage(file) ==
    /\ file # null
    /\ startsWith(FileType(file), <<"i","m","a","g","e","/">>)

\* What getMarineOrganismCounts() can resolve to (ScanResults | null); the
\* values are named: "r1" and "r2" are two ScanResults bundles.
ScanResults == {"r1", "r2"}
reject == "reject"

\* How a call of getMarineOrganismCounts() can end: it resolves to ScanResults
\* or to null, or it rejects.
Outcomes == ScanResults \cup {null, reject}

\* A state of type string | null that holds no object URL, and a FileReader's
\* result after a failed read.
noUrl == <<>>
noResult == <<>>

\* FileReader.readAsDataURL: "data:<type>;base64,<payload of the file>".
readAsDataURL(file) ==
    <<"d","a","t","a",":">> \o FileType(file) \o <<";","b","a","s","e","6","4",",">> \o <<file>>

VARIABLES
    \* Scanning component state (useState)
    isScanning, scanResults, showResults, uploadedFile, filePreviewUrl, isDataSaved,
    \* App component state
    currentSection, savedScans,
    \* browser and collaborators
    liveUrls,      \* object URLs created and not yet revoked
    nextUrl,       \* the next object URL createObjectURL returns
    analyses,      \* startScan calls that have not finished
    showTimers,    \* pending setTimeout(() => setShowResults(true), 100)
    readers,       \* FileReaders that are still loading
    now,           \* the clock
    \* observation
    started,       \* startScan calls that passed the guard
    analyzeCalls,  \* calls of getMarineOrganismCounts
    handoffs,      \* calls of onSaveScan: what Save handed over
    alerts,        \* alert() calls of handleSaveScan
    resultsOrigin, \* the file that was staged when the analysis behind scanResults started
    peakLive,      \* most object URLs that were live at the same moment
    lastOp         \* the last task that ran

scanVars == <<isScanning, scanResults, showResults, uploadedFile, filePreviewUrl, isDataSaved>>
appVars == <<currentSection, savedScans>>
urlVars == <<liveUrls, nextUrl, peakLive>>
envVars == <<analyses, showTimers, readers, now>>
obsVars == <<started, analyzeCalls, handoffs, alerts, resultsOrigin>>

VARIABLES
    \* the four useAnimatedCounter hooks of Scanning
    counters,      \* per organism category: count, countRef.current, target, running animate closures
    shown,         \* showResults and scanResults of the render the hooks last ran in
    timestamp,     \* the timestamp of the last animation frame
    renders        \* re-renders of Scanning that the hooks have seen

counterVars == <<counters, shown, timestamp, renders>>

VARIABLES
    \* a call of normalizeAngle
    angleArg,      \* the argument a
    angleResult    \* whether the call returned, and what

angleVars == <<angleArg, angleResult>>

VARIABLES
    \* SwimCanvas and the browser services it uses
    swimMounted,       \* the effect of SwimCanvas has run and its clean-up has not
    leaders,           \* leadersRef.current
    school,            \* schoolRef.current
    animationFrameId,  \* animationFrameId.current
    rafPending,        \* requestAnimationFrame requests that are neither run nor cancelled
    nextRafId,         \* the id the next requestAnimationFrame call returns
    listeners,         \* the handleResize closures attached to window
    mounts,            \* runs of the effect
    setups,            \* setupCanvas calls that initialized the engine
    ticks,             \* animate calls
    flockOp            \* the last step of SwimCanvas

flockVars == <<swimMounted, leaders, school, animationFrameId, rafPending, nextRafId,
               listeners, mounts, setups, ticks, flockOp>>

\* What the scan workflow never touches.
asideVars == <<counterVars, angleVars, flockVars>>

vars == <<scanVars, appVars, urlVars, envVars, obsVars, lastOp, asideVars>>

mounted == currentSection = ScanningSection

\* A task, whether it went past its guard (for a callback: whether it ran on a
\* mounted component; for staging: whether the file was an image), and whether
\* a file was staged when it began.
Op(name, ok) == [op |-> name, ok |-> ok, had |-> uploadedFile # null]

Max(a, b) == IF a >= b THEN a ELSE b

\* useState initial values of Scanning and App, and an idle browser
scanInit ==
    /\ isScanning = FALSE
    /\ scanResults = null
    /\ showResults = FALSE
    /\ uploadedFile = null
    /\ filePreviewUrl = noUrl
    /\ isDataSaved = FALSE
    /\ currentSection = Home
    /\ savedScans = <<>>
    /\ liveUrls = {}
    /\ nextUrl = 1
    /\ analyses = {}
    /\ showTimers = {}
    /\ readers = {}
    /\ now = 0
    /\ started = 0
    /\ analyzeCalls = 0
    /\ handoffs = <<>>
    /\ alerts = <<>>
    /\ resultsOrigin = null
    /\ peakLive = 0
    /\ lastOp = Op("init", TRUE)

\* ---- object URLs ----

\* URL.createObjectURL: a URL no earlier call returned
createObjectURL(n) == <<"blob:", n>>

\* URL.revokeObjectURL
revokeObjectURL(live, url) == live \ {url}

\* revokePrevious that revokes nothing
revokePrevious_none(live, url) == live

\* if (filePreviewUrl) URL.revokeObjectURL(filePreviewUrl), first line of handleFileChange
revokePrevious(live, url) == IF url # noUrl THEN revokeObjectURL(live, url) ELSE live

\* The clean-up of the preview effect: () => { if (filePreviewUrl) URL.revokeObjectURL(filePreviewUrl) }
previewCleanup(live, url) == IF url # noUrl THEN revokeObjectURL(live, url) ELSE live

\* ---- the Scanning component ----

\* The state an event handler of the current render sees, with the browser's
\* object URLs and the observations the handlers feed.
Cur ==
    [isScanning |-> isScanning, scanResults |-> scanResults, showResults |-> showResults,
     uploadedFile |-> uploadedFile, filePreviewUrl |-> filePreviewUrl,
     isDataSaved |-> isDataSaved, liveUrls |-> liveUrls, nextUrl |-> nextUrl,
     peakLive |-> peakLive, resultsOrigin |-> resultsOrigin]

\* useState initial values: the state of a freshly mounted (or unmounted) Scanning.
Fresh(s) ==
    [s EXCEPT !.isScanning = FALSE, !.scanResults = null, !.showResults = FALSE,
              !.uploadedFile = null, !.filePreviewUrl = noUrl, !.isDataSaved = FALSE,
              !.resultsOrigin = null]

\* The re-render after a handler left the state s: the batched setState calls
\* take effect, and when filePreviewUrl changed the preview effect's clean-up
\* runs with the value of the previous render.
Render(s) ==
    /\ isScanning' = s.isScanning
    /\ scanResults' = s.scanResults
    /\ showResults' = s.showResults
    /\ uploadedFile' = s.uploadedFile
    /\ filePreviewUrl' = s.filePreviewUrl
    /\ isDataSaved' = s.isDataSaved
    /\ liveUrls' = IF s.filePreviewUrl # filePreviewUrl
                   THEN previewCleanup(s.liveUrls, filePreviewUrl)
                   ELSE s.liveUrls
    /\ nextUrl' = s.nextUrl
    /\ peakLive' = s.peakLive
    /\ resultsOrigin' = s.resultsOrigin

\* The image branch of handleFileChange: the previous preview is revoked, the
\* file is staged with a new preview and the results of an earlier scan go.
stageImage(s, file) ==
    LET afterRevoke == revokePrevious(s.liveUrls, s.filePreviewUrl)
        url == createObjectURL(s.nextUrl)
        created == afterRevoke \cup {url}
    IN  [s EXCEPT !.uploadedFile = file,
                  !.filePreviewUrl = url,
                  !.liveUrls = created,
                  !.nextUrl = s.nextUrl + 1,
                  !.peakLive = Max(s.peakLive, Cardinality(created)),
                  !.showResults = FALSE,
                  !.scanResults = null,
                  !.isDataSaved = FALSE,
                  !.resultsOrigin = null]

\* clearStaged that ignores the rejected file and keeps what was staged
clearStaged_keepsStaged(s) == s

\* The else branch of handleFileChange: the previous preview is revoked and
\* the staged file and its preview are cleared.
clearStaged(s) ==
    [s EXCEPT !.uploadedFile = null,
              !.filePreviewUrl = noUrl,
              !.liveUrls = revokePrevious(s.liveUrls, s.filePreviewUrl)]

\* handleFileChange(file), run on the state s
handleFileChange(s, file) ==
    IF isImage(file) THEN stageImage(s, file) ELSE clearStaged(s)

\* The drop zone, the file input and the start button are rendered while !showResults.
dropZoneRendered == mounted /\ ~showResults

\* createObjectURL is called at most MaxUrls times in one run.
canStage(file) == isImage(file) => nextUrl <= MaxUrls

\* handleDrop with e.dataTransfer.files[0] = file
handleDrop(file) ==
    /\ dropZoneRendered
    /\ canStage(file)
    /\ Render(handleFileChange(Cur, file))
    /\ lastOp' = Op("stage", isImage(file))
    /\ UNCHANGED <<appVars, envVars, started, analyzeCalls, handoffs, alerts>>
    /\ UNCHANGED asideVars

\* onFileInputChange with e.target.files[0] = file, or with no file
onFileInputChange(file) ==
    /\ dropZoneRendered
    /\ canStage(file)
    /\ Render(handleFileChange(Cur, file))
    /\ lastOp' = Op("stage", isImage(file))
    /\ UNCHANGED <<appVars, envVars, started, analyzeCalls, handoffs, alerts>>
    /\ UNCHANGED asideVars

\* startScanRejects without the isScanning test
startScanRejects_ignoresScanning(s) == s.uploadedFile = null

\* if (isScanning || !uploadedFile) return;
startScanRejects(s) == s.isScanning \/ s.uploadedFile = null

\* startScan up to its first await: the click on the start button
startScan ==
    /\ dropZoneRendered
    /\ IF startScanRejects(Cur)
       THEN /\ lastOp' = Op("startScan", FALSE)
            /\ UNCHANGED <<scanVars, urlVars, resultsOrigin, analyses, started>>
       ELSE /\ started < MaxScans
            /\ Render([Cur EXCEPT !.isScanning = TRUE, !.showResults = FALSE,
                                  !.isDataSaved = FALSE])
            /\ analyses' = analyses \cup
                   {[id |-> started + 1, orphan |-> FALSE, phase |-> "delay",
                     due |-> now + ScanDelay, file |-> uploadedFile]}
            /\ started' = started + 1
            /\ lastOp' = Op("startScan", TRUE)
    /\ UNCHANGED <<appVars, showTimers, readers, now, analyzeCalls, handoffs, alerts>>
    /\ UNCHANGED asideVars

\* await new Promise(resolve => setTimeout(resolve, 2000)) ends and
\* getMarineOrganismCounts() is called
delayElapsed(a) ==
    /\ a \in analyses
    /\ a.phase = "delay"
    /\ a.due <= now
    /\ analyses' = (analyses \ {a}) \cup {[a EXCEPT !.phase = "call"]}
    /\ analyzeCalls' = analyzeCalls + 1
    /\ lastOp' = Op("delayElapsed", TRUE)
    /\ UNCHANGED <<scanVars, appVars, urlVars, showTimers, readers, now,
                   started, handoffs, alerts, resultsOrigin>>
    /\ UNCHANGED asideVars

\* The state setters of a startScan or timer closure act on the component
\* instance that created them; once that instance is unmounted (the closure is
\* an orphan) they do nothing.
alive(c) == ~c.orphan

\* The rest of startScan after getMarineOrganismCounts() resolved to results
startScanResume(s, a, results) ==
    [s EXCEPT !.scanResults = results,
              !.isScanning = FALSE,
              !.resultsOrigin = IF results # null THEN a.file ELSE null]

\* showTimerFor without the if (results) test
showTimerFor_always(a, results) ==
    {[id |-> a.id, orphan |-> a.orphan, due |-> now + ShowDelay]}

\* if (results) setTimeout(() => setShowResults(true), 100)
showTimerFor(a, results) ==
    IF results # null THEN {[id |-> a.id, orphan |-> a.orphan, due |-> now + ShowDelay]} ELSE {}

\* getMarineOrganismCounts() settles: it resolves to ScanResults or null, or rejects
analysisSettles(a, results) ==
    /\ a \in analyses
    /\ a.phase = "call"
    /\ analyses' = analyses \ {a}
    /\ IF results = reject
       THEN /\ UNCHANGED <<scanVars, urlVars, resultsOrigin, showTimers>>
            /\ lastOp' = Op("analysisRejects", alive(a))
       ELSE /\ IF alive(a)
               THEN Render(startScanResume(Cur, a, results))
               ELSE UNCHANGED <<scanVars, urlVars, resultsOrigin>>
            /\ showTimers' = showTimers \cup showTimerFor(a, results)
            /\ lastOp' = Op(IF results = null THEN "analysisResolvesNull"
                             ELSE "analysisResolves", alive(a))
    /\ UNCHANGED <<appVars, readers, now, started, analyzeCalls, handoffs, alerts>>
    /\ UNCHANGED asideVars

\* () => setShowResults(true), 100 ms after startScan received results
showTimerFires(t) ==
    /\ t \in showTimers
    /\ t.due <= now
    /\ showTimers' = showTimers \ {t}
    /\ IF alive(t)
       THEN Render([Cur EXCEPT !.showResults = TRUE])
       ELSE UNCHANGED <<scanVars, urlVars, resultsOrigin>>
    /\ lastOp' = Op("showTimerFires", alive(t))
    /\ UNCHANGED <<appVars, analyses, readers, now, started, analyzeCalls,
                   handoffs, alerts>>
    /\ UNCHANGED asideVars

\* resetScan, run on the state s
resetScan(s) ==
    handleFileChange([s EXCEPT !.isScanning = FALSE, !.showResults = FALSE,
                               !.scanResults = null, !.resultsOrigin = null], null)

\* A click on "Reset System" or on "Start New Scan": one of them is always rendered.
resetScanClick ==
    /\ mounted
    /\ Render(resetScan(Cur))
    /\ lastOp' = Op("resetScan", TRUE)
    /\ UNCHANGED <<appVars, envVars, started, analyzeCalls, handoffs, alerts>>
    /\ UNCHANGED asideVars

\* handleSaveClickRejects without the isDataSaved test
handleSaveClickRejects_ignoresSaved(s) == s.scanResults = null \/ s.uploadedFile = null

\* if (!scanResults || !uploadedFile || isDataSaved) return;
handleSaveClickRejects(s) == s.scanResults = null \/ s.uploadedFile = null \/ s.isDataSaved

\* handleSaveClick, a click on the save button (rendered while showResults), and
\* App.handleSaveScan up to reader.readAsDataURL(imageFile). Between two
\* accepted clicks a show timer has fired, so MaxScans bounds them too.
handleSaveClick ==
    /\ mounted
    /\ showResults
    /\ IF handleSaveClickRejects(Cur)
       THEN /\ lastOp' = Op("save", FALSE)
            /\ UNCHANGED <<scanVars, urlVars, resultsOrigin, readers, handoffs>>
       ELSE /\ handoffs' = Append(handoffs, [results |-> scanResults, file |-> uploadedFile,
                                             origin |-> resultsOrigin])
            /\ readers' = readers \cup {[id |-> Len(handoffs) + 1, results |-> scanResults,
                                         imageFile |-> uploadedFile]}
            /\ Render([Cur EXCEPT !.isDataSaved = TRUE])
            /\ lastOp' = Op("save", TRUE)
    /\ UNCHANGED <<appVars, analyses, showTimers, now, started, analyzeCalls, alerts>>
    /\ UNCHANGED asideVars

\* ---- the App component ----

\* The SavedScan built in reader.onloadend
newScan(r, result) == [results |-> r.results, image |-> result, timestamp |-> now]

\* onloadend that puts the new scan last
onloadend_appends(scans, r, result) == scans \o <<newScan(r, result)>>

\* reader.onloadend: setSavedScans(prevScans => [newScan, ...prevScans])
onloadend(scans, r, result) == <<newScan(r, result)>> \o scans

\* The events a FileReader fires when its read ends: load, loadend on success;
\* error, loadend on failure, with reader.result null.
readerEvents(ok) == IF ok THEN <<"loadend">> ELSE <<"error", "loadend">>

\* The alert() calls of the handlers App.handleSaveScan registered
readerAlerts(r, ok) ==
    LET say(e) == IF e = "error" THEN [reader |-> r.id, text |-> "Failed to save scan data."]
                  ELSE [reader |-> r.id, text |-> "Scan data saved successfully!"]
        evs == readerEvents(ok)
    IN  [i \in 1..Len(evs) |-> say(evs[i])]

\* The read of a FileReader ends, successfully or not
readerEnds(r, ok) ==
    /\ r \in readers
    /\ readers' = readers \ {r}
    /\ savedScans' = IF \E i \in 1..Len(readerEvents(ok)) : readerEvents(ok)[i] = "loadend"
                     THEN onloadend(savedScans, r, IF ok THEN readAsDataURL(r.imageFile) ELSE noResult)
                     ELSE savedScans
    /\ alerts' = alerts \o readerAlerts(r, ok)
    /\ lastOp' = Op("readerEnds", ok)
    /\ UNCHANGED <<scanVars, currentSection, urlVars, analyses, showTimers, now,
                   started, analyzeCalls, handoffs, resultsOrigin>>
    /\ UNCHANGED asideVars

\* The unmount of Scanning: the preview effect's clean-up runs and the state is gone.
unmountScanning(s) ==
    Fresh([s EXCEPT !.liveUrls = previewCleanup(s.liveUrls, s.filePreviewUrl)])

\* The closures of an unmounted Scanning keep running, on a component that is gone.
orphaned(closures) == {[c EXCEPT !.orphan = TRUE] : c \in closures}

\* handleNavigate(section)
handleNavigate(section) ==
    /\ IF section = currentSection
       THEN /\ lastOp' = Op("navigate", FALSE)
            /\ UNCHANGED <<scanVars, urlVars, resultsOrigin, currentSection, analyses, showTimers>>
       ELSE /\ currentSection' = section
            /\ lastOp' = Op("navigate", TRUE)
            /\ IF mounted
               THEN /\ Render(unmountScanning(Cur))
                    /\ analyses' = orphaned(analyses)
                    /\ showTimers' = orphaned(showTimers)
               ELSE UNCHANGED <<scanVars, urlVars, resultsOrigin, analyses, showTimers>>
    /\ UNCHANGED <<savedScans, readers, now, started, analyzeCalls, handoffs, alerts>>
    /\ UNCHANGED asideVars

\* ---- time ----

\* A timer that is due runs before the clock moves on.
timerDue ==
    \/ \E a \in analyses : a.phase = "delay" /\ a.due <= now
    \/ \E t \in showTimers : t.due <= now

\* Something is in flight: a startScan call, a show timer or a FileReader.
pending == analyses # {} \/ showTimers # {} \/ readers # {}

\* 100 ms pass. The program reads the clock only through its timers and the
\* timestamp of a new SavedScan, so time that passes while nothing is in
\* flight is not counted.
Tick ==
    /\ now < MaxTime
    /\ pending
    /\ ~timerDue
    /\ now' = now + 1
    /\ lastOp' = Op("tick", TRUE)
    /\ UNCHANGED <<scanVars, appVars, urlVars, analyses, showTimers, readers, obsVars>>
    /\ UNCHANGED asideVars

\* ---- the animated counters of Scanning (useAnimatedCounter) ----

\* The time of an animation is counted in eighths of its duration (187.5 ms):
\* the progress of an animation is then a multiple of 1/8, which floating
\* point represents exactly, and so are the products taken with it.
duration == 8      \* duration = 1500

\* ---- bounds of the counters' exploration ----
MaxStamp == 20     \* the frame clock stops at 3750 ms
MaxGap == 2        \* longest time between two animation frames
MaxRenders == 3    \* re-renders of Scanning that change showResults or scanResults

Categories == {"plankton", "algae", "bacteria", "protozoa"}

\* scanResults[category].count of the two ScanResults bundles
countOf(results, category) ==
    IF results = "r1"
    THEN CASE category = "plankton" -> 1200
           [] category = "algae"    -> 340
           [] category = "bacteria" -> 58
           [] OTHER                 -> 12
    ELSE CASE category = "plankton" -> 900
           [] category = "algae"    -> 340
           [] category = "bacteria" -> 75
           [] OTHER                 -> 0

Min(a, b) == IF a <= b THEN a ELSE b

\* lerp(a, b, t) = a + (b - a) * t, with t and the value in eighths
lerp(a, b, t) == a * duration + (b - a) * t

\* Math.floor of a value in eighths
floor(x) == x \div duration

\* let startTime: number, before the first frame of an animation
unset == 0

\* An animate closure that waits for an animation frame.
animateClosure(startCount, target) ==
    [startTime |-> unset, startCount |-> startCount, target |-> target]

\* useState(0), useRef(count) and the effect of the first render with target 0
mountedCounter ==
    [count |-> 0, countRef |-> 0, target |-> 0, loops |-> <<animateClosure(0, 0)>>]

\* showResults ? scanResults?.[category]?.count ?? 0 : 0
counterTarget(showing, results, category) ==
    IF showing
    THEN IF results # null THEN countOf(results, category) ELSE 0
    ELSE 0

\* A render of the hook with a target: when the target changed, the effect's
\* clean-up stores the previous target in countRef, the new effect reads it as
\* startCount and requests a frame for a new animate closure. The closures of
\* earlier effects are not cancelled.
useAnimatedCounter(h, target) ==
    IF target = h.target
    THEN h
    ELSE LET cleaned == [h EXCEPT !.countRef = h.target]
         IN  [cleaned EXCEPT !.target = target,
                             !.loops = Append(h.loops, animateClosure(cleaned.countRef, target))]

\* if (!startTime) startTime = timestamp
withStartTime(l, ts) == IF l.startTime = unset THEN [l EXCEPT !.startTime = ts] ELSE l

\* Math.min((timestamp - startTime) / duration, 1), in eighths
progress(l, ts) == Min(ts - l.startTime, duration)

\* Math.floor(lerp(startCount, target, progress))
newCount(l, ts) == floor(lerp(l.startCount, l.target, progress(l, ts)))

\* One animation frame of a hook: every waiting animate closure runs, in the
\* order of its request, and calls setCount; a closure whose progress is below
\* 1 requests the next frame. The last setCount of the frame is rendered.
frameOf(h, ts) ==
    LET ran == [i \in 1..Len(h.loops) |-> withStartTime(h.loops[i], ts)]
        unfinished(l) == progress(l, ts) < duration
    IN  IF Len(ran) = 0
        THEN h
        ELSE [h EXCEPT !.count = newCount(ran[Len(ran)], ts),
                       !.loops = SelectSeq(ran, unfinished)]

counterInit ==
    /\ counters = [c \in Categories |-> mountedCounter]
    /\ shown = [showResults |-> FALSE, scanResults |-> null]
    /\ timestamp = 1
    /\ renders = 0

\* Scanning renders with showResults = showing and scanResults = results, and
\* its four hooks run with the targets of that render.
renderScanning(showing, results) ==
    /\ renders < MaxRenders
    /\ shown # [showResults |-> showing, scanResults |-> results]
    /\ shown' = [showResults |-> showing, scanResults |-> results]
    /\ counters' = [c \in Categories |->
                       useAnimatedCounter(counters[c], counterTarget(showing, results, c))]
    /\ renders' = renders + 1
    /\ UNCHANGED <<timestamp, angleVars, flockVars, scanVars, appVars, urlVars, envVars, obsVars, lastOp>>

\* setScanResults(results) of startScan
counterSetScanResults(results) == renderScanning(shown.showResults, results)

\* setShowResults(true) of the timer startScan set
counterSetShowResults == renderScanning(TRUE, shown.scanResults)

\* setShowResults(false) of startScan
counterStartScan == renderScanning(FALSE, shown.scanResults)

\* setShowResults(false); setScanResults(null) of handleFileChange and resetScan
counterClear == renderScanning(FALSE, null)

\* The browser runs an animation frame, gap eighths after the last one.
animationFrame(gap) ==
    /\ timestamp + gap <= MaxStamp
    /\ timestamp' = timestamp + gap
    /\ counters' = [c \in Categories |-> frameOf(counters[c], timestamp')]
    /\ UNCHANGED <<shown, renders, angleVars, flockVars, scanVars, appVars, urlVars, envVars, obsVars, lastOp>>

\* The counters under every order and timing of the state changes of Scanning
\* that reach them; which orders the scan workflow produces is explored by Spec.
CounterNext ==
    \/ \E results \in ScanResults \cup {null} : counterSetScanResults(results)
    \/ counterSetShowResults
    \/ counterStartScan
    \/ counterClear
    \/ \E gap \in 1..MaxGap : animationFrame(gap)

\* ---- normalizeAngle ----

\* Angles are counted in units of pi / 200.
PI == 200          \* Math.PI

\* ---- bounds of the angles explored ----
AngleStep == 50    \* the arguments are the multiples of pi / 4
MaxAngle == 60     \* up to 15 pi on either side

Angles == {k * AngleStep : k \in -MaxAngle..MaxAngle}

RECURSIVE whileAbove(_), whileBelow(_)

\* while (a > Math.PI) a -= Math.PI * 2
whileAbove(a) == IF a > PI THEN whileAbove(a - PI * 2) ELSE a

\* while (a < -Math.PI) a += Math.PI * 2
whileBelow(a) == IF a < -PI THEN whileBelow(a + PI * 2) ELSE a

normalizeAngle(a) == whileBelow(whileAbove(a))

notCalled == [returned |-> FALSE, value |-> 0]

angleInit ==
    /\ angleArg = 0
    /\ angleResult = notCalled

\* normalizeAngle(angleArg) is called and returns
callNormalizeAngle ==
    /\ ~angleResult.returned
    /\ angleResult' = [returned |-> TRUE, value |-> normalizeAngle(angleArg)]
    /\ UNCHANGED <<angleArg, counterVars, flockVars, scanVars, appVars, urlVars, envVars, obsVars, lastOp>>

\* ---- SwimCanvas: the flocking engine ----

numLeaders == 3
numFish == 70

\* ---- bounds of the flocking exploration ----
RandomSteps == 5   \* Math.random() returns a multiple of 1/5 below 1
MaxMounts == 2     \* runs of the effect of SwimCanvas
MaxSetups == 3     \* initializations of the engine
MaxTicks == 2      \* animate calls

\* The seeds of Math.random, and the k-th number (in fifths) it returns after
\* it was seeded.
Seeds == 0..(RandomSteps - 1)
random(seed, k) == (seed + k) % RandomSteps

\* Math.atan2(dy, dx) lies in [-pi, pi]; the bearings explored.
Bearings == {-PI, 0, PI}

\* random * Math.PI * 2
randomAngle(r) == (r * PI * 2) \div RandomSteps

\* leaderIndexOf that can return numLeaders
leaderIndexOf_upToNumLeaders(r) == (r * (numLeaders + 1)) \div RandomSteps

\* Math.floor(Math.random() * numLeaders)
leaderIndexOf(r) == (r * numLeaders) \div RandomSteps

\* 0.05 + Math.random() * 0.05, in hundredths
randomTurnSpeed(r) == 5 + (r * 5) \div RandomSteps

\* The leaders setupCanvas creates: leader i takes the draws 4i .. 4i+3 for x,
\* y, speed and offset. A tick overwrites x and y before it reads them; they
\* are not kept here.
newLeaders(seed) ==
    [i \in 1..numLeaders |->
        [speed |-> random(seed, 4 * (i - 1) + 2), offset |-> random(seed, 4 * (i - 1) + 3)]]

\* The fish setupCanvas creates: fish i takes 8 draws after those of the
\* leaders, for x, y, angle, size, leaderIndex, offsetX, offsetY and turnSpeed.
\* Of a fish its heading, its leader and its turn rate are kept.
newSchool(seed) ==
    [i \in 1..numFish |->
        LET k == 4 * numLeaders + 8 * (i - 1)
        IN  [angle |-> randomAngle(random(seed, k + 2)),
             leaderIndex |-> leaderIndexOf(random(seed, k + 4)),
             turnSpeed |-> randomTurnSpeed(random(seed, k + 7))]]

\* The refs of SwimCanvas and the browser's frame requests, as a handler sees them.
FlockCur ==
    [leaders |-> leaders, school |-> school, animationFrameId |-> animationFrameId,
     rafPending |-> rafPending, nextRafId |-> nextRafId, setups |-> setups]

\* setupCanvas with canvasRef.current = canvas: nothing without a canvas, else
\* the leaders and then the school are replaced.
setupCanvas(f, canvas, seed) ==
    IF ~canvas
    THEN f
    ELSE [f EXCEPT !.leaders = newLeaders(seed),
                   !.school = newSchool(seed),
                   !.setups = f.setups + 1]

\* animationFrameId.current = requestAnimationFrame(animate)
requestFrame(f) ==
    [f EXCEPT !.animationFrameId = f.nextRafId,
              !.rafPending = f.rafPending \cup {f.nextRafId},
              !.nextRafId = f.nextRafId + 1]

\* angleDiff * fish.turnSpeed, rounded down to the grid of angles
turn(angleDiff, turnSpeed) == (angleDiff * turnSpeed) \div 100

\* The update of one fish in animate: leader is leadersRef.current[fish.leaderIndex]
\* and bearing[i] is Math.atan2(dy, dx) towards the target of a follower of
\* leader i.
updateFish(fish, ls, bearing) ==
    LET leader == ls[fish.leaderIndex + 1]
        targetAngle == bearing[fish.leaderIndex + 1]
        angleDiff == normalizeAngle(targetAngle - fish.angle)
    IN  [fish EXCEPT !.angle = fish.angle + turn(angleDiff, fish.turnSpeed)]

\* animate: without a canvas or a context it returns; else every fish is
\* updated and drawn and the next frame is requested.
animate(f, canvas, ctx, bearing) ==
    IF ~canvas \/ ~ctx
    THEN f
    ELSE requestFrame([f EXCEPT !.school =
                          [i \in 1..Len(f.school) |-> updateFish(f.school[i], f.leaders, bearing)]])

\* cancelAnimationFrame
cancelAnimationFrame(requests, id) == requests \ {id}

\* cancelPending that cancels nothing
cancelPending_none(requests, id) == requests

\* if (animationFrameId.current) cancelAnimationFrame(animationFrameId.current)
cancelPending(requests, id) == IF id # 0 THEN cancelAnimationFrame(requests, id) ELSE requests

\* The refs a step leaves behind
FlockCommit(f) ==
    /\ leaders' = f.leaders
    /\ school' = f.school
    /\ animationFrameId' = f.animationFrameId
    /\ rafPending' = f.rafPending
    /\ nextRafId' = f.nextRafId
    /\ setups' = f.setups

flockInit ==
    /\ swimMounted = FALSE
    /\ leaders = <<>>
    /\ school = <<>>
    /\ animationFrameId = 0
    /\ rafPending = {}
    /\ nextRafId = 1
    /\ listeners = {}
    /\ mounts = 0
    /\ setups = 0
    /\ ticks = 0
    /\ flockOp = [op |-> "init", ok |-> TRUE]

\* The effect of SwimCanvas runs: setupCanvas, the first frame request, and
\* the resize listener. React can run an effect again after its clean-up.
swimMount(seed) ==
    /\ ~swimMounted
    /\ mounts < MaxMounts
    /\ setups < MaxSetups
    /\ swimMounted' = TRUE
    /\ mounts' = mounts + 1
    /\ FlockCommit(requestFrame(setupCanvas(FlockCur, TRUE, seed)))
    /\ listeners' = listeners \cup {mounts + 1}
    /\ flockOp' = [op |-> "mount", ok |-> TRUE]
    /\ UNCHANGED <<ticks, counterVars, angleVars, scanVars, appVars, urlVars, envVars, obsVars, lastOp>>

\* A resize event of window: every attached handleResize calls setupCanvas,
\* which finds a canvas while the component is mounted.
handleResize(seed) ==
    /\ listeners # {}
    /\ setups < MaxSetups
    /\ FlockCommit(setupCanvas(FlockCur, swimMounted, seed))
    /\ flockOp' = [op |-> "resize", ok |-> swimMounted]
    /\ UNCHANGED <<swimMounted, listeners, mounts, ticks,
                   counterVars, angleVars, scanVars, appVars, urlVars, envVars, obsVars, lastOp>>

\* The browser runs the requested frame id: animate is called, with a context
\* or without one (getContext('2d') can return null).
swimTick(id, ctx, bearing) ==
    /\ id \in rafPending
    /\ ticks < MaxTicks
    /\ ticks' = ticks + 1
    /\ FlockCommit(animate([FlockCur EXCEPT !.rafPending = rafPending \ {id}],
                           swimMounted, ctx, bearing))
    /\ flockOp' = [op |-> "tick", ok |-> swimMounted /\ ctx]
    /\ UNCHANGED <<swimMounted, listeners, mounts,
                   counterVars, angleVars, scanVars, appVars, urlVars, envVars, obsVars, lastOp>>

\* The clean-up of the effect of SwimCanvas
swimUnmount ==
    /\ swimMounted
    /\ swimMounted' = FALSE
    /\ rafPending' = cancelPending(rafPending, animationFrameId)
    /\ listeners' = listeners \ {mounts}
    /\ flockOp' = [op |-> "unmount", ok |-> TRUE]
    /\ UNCHANGED <<leaders, school, animationFrameId, nextRafId, mounts, setups, ticks,
                   counterVars, angleVars, scanVars, appVars, urlVars, envVars, obsVars, lastOp>>

FlockNext ==
    \/ \E seed \in Seeds : swimMount(seed)
    \/ \E seed \in Seeds : handleResize(seed)
    \/ \E id \in rafPending, ctx \in BOOLEAN, bearing \in [1..numLeaders -> Bearings] :
           swimTick(id, ctx, bearing)
    \/ swimUnmount

Init == scanInit /\ counterInit /\ angleInit /\ flockInit

Next ==
    \/ \E file \in Files : handleDrop(file)
    \/ \E file \in Files \cup {null} : onFileInputChange(file)
    \/ startScan
    \/ \E a \in analyses : delayElapsed(a)
    \/ \E a \in analyses, results \in Outcomes : analysisSettles(a, results)
    \/ \E t \in showTimers : showTimerFires(t)
    \/ resetScanClick
    \/ handleSaveClick
    \/ \E r \in readers, ok \in BOOLEAN : readerEnds(r, ok)
    \/ \E section \in Section : handleNavigate(section)
    \/ Tick

Spec == Init /\ [][Next]_vars

\* The browser runs a timer that is due, the collaborator's promise settles
\* and its continuation runs, and time passes; the user need not act.
FairSpec ==
    /\ Spec
    /\ WF_vars(Tick)
    /\ WF_vars(\E a \in analyses : delayElapsed(a))
    /\ WF_vars(\E a \in analyses, results \in Outcomes : analysisSettles(a, results))
    /\ WF_vars(\E t \in showTimers : showTimerFires(t))

CounterSpec == Init /\ [][CounterNext]_vars

\* normalizeAngle on every argument of Angles
AngleInit ==
    /\ scanInit
    /\ counterInit
    /\ flockInit
    /\ angleArg \in Angles
    /\ angleResult = notCalled

AngleNext == callNormalizeAngle

AngleSpec == AngleInit /\ [][AngleNext]_vars

FlockSpec == Init /\ [][FlockNext]_vars

\* ---- properties ----

\* The startScan calls of the mounted scan view that have not finished
inFlight == {a \in analyses : ~a.orphan}

\* C1: at most one analysis (a startScan call that has not finished its delay
\* and its getMarineOrganismCounts call) of the mounted scan view is in flight.
C1_AtMostOneAnalysisInFlight == Cardinality(inFlight) <= 1

\* C2: a startScan call made while isScanning, or with no file staged, changes
\* no state of the workflow and starts no analysis; a startScan call that
\* directly follows an accepted one starts no second analysis.
C2_StartScanIsNoOpWhileAnalyzing ==
    [][lastOp'.op = "startScan" =>
          /\ (isScanning \/ uploadedFile = null) =>
                 /\ UNCHANGED <<scanVars, urlVars, analyses, showTimers, started, analyzeCalls>>
                 /\ ~lastOp'.ok
          /\ lastOp = Op("startScan", TRUE) =>
                 UNCHANGED <<analyses, started, analyzeCalls>>]_vars

\* A second startScan call was made while the first analysis was pending, and
\* still exactly one analysis exists.
C2_Witness ==
    /\ lastOp = Op("startScan", FALSE)
    /\ isScanning
    /\ uploadedFile # null
    /\ started = 1
    /\ Cardinality(analyses) = 1

\* C3: right after resetScan the staged file, the preview and the results are
\* absent, results are not shown, and isScanning and isDataSaved are false.
C3_ResetClearsEverything ==
    lastOp.op = "resetScan" =>
        /\ uploadedFile = null
        /\ filePreviewUrl = noUrl
        /\ liveUrls = {}
        /\ scanResults = null
        /\ ~showResults
        /\ ~isScanning
        /\ ~isDataSaved

\* C4: results that are shown belong to the staged file, that is, the file
\* staged now is the one that was staged when their analysis started, and
\* Save hands that file to onSaveScan.
C4_ResultsCarryTheOriginalFile ==
    /\ (showResults /\ scanResults # null) => uploadedFile = resultsOrigin
    /\ \A i \in 1..Len(handoffs) : handoffs[i].file = handoffs[i].origin

\* C5: when getMarineOrganismCounts() resolves to null on a mounted scan view,
\* scanResults is null afterwards, isScanning is false, the staged file is
\* kept, showResults is not changed, no show timer is set and nothing is
\* alerted.
C5_AbsentResultIsNotShown ==
    [][lastOp' = Op("analysisResolvesNull", TRUE) =>
          /\ scanResults' = null
          /\ ~isScanning'
          /\ uploadedFile' = uploadedFile
          /\ filePreviewUrl' = filePreviewUrl
          /\ showResults' = showResults
          /\ showTimers' = showTimers
          /\ alerts' = alerts]_vars

\* An analysis of a staged file resolved to null: the file is still staged,
\* nothing is shown and nothing waits to be shown.
C5_Witness ==
    /\ lastOp = Op("analysisResolvesNull", TRUE)
    /\ uploadedFile # null
    /\ scanResults = null
    /\ ~isScanning
    /\ ~showResults
    /\ showTimers = {}

\* C6: a Save click with no results, with isDataSaved set, or directly after
\* another Save click hands nothing over and changes nothing; an accepted one
\* hands (scanResults, uploadedFile) over once and sets isDataSaved; a read
\* that succeeds prepends one entry with the handed-over results and a
\* non-empty image.
C6_SaveIsIdempotent ==
    /\ [][lastOp'.op = "save" =>
             /\ (scanResults = null \/ isDataSaved \/ lastOp.op = "save") =>
                    /\ UNCHANGED <<scanVars, handoffs, readers, savedScans, alerts>>
                    /\ ~lastOp'.ok
             /\ lastOp'.ok =>
                    /\ Len(handoffs') = Len(handoffs) + 1
                    /\ handoffs'[Len(handoffs')].results = scanResults
                    /\ handoffs'[Len(handoffs')].file = uploadedFile
                    /\ Cardinality(readers') = Cardinality(readers) + 1
                    /\ isDataSaved']_vars
    /\ [][lastOp' = Op("readerEnds", TRUE) =>
             \E r \in readers :
                 /\ readers' = readers \ {r}
                 /\ Len(savedScans') = Len(savedScans) + 1
                 /\ Tail(savedScans') = savedScans
                 /\ Head(savedScans').results = handoffs[r.id].results
                 /\ Len(Head(savedScans').image) > 0]_vars

\* Save was clicked again after the shown result had been saved and encoded:
\* one handoff, one entry.
C6_Witness ==
    /\ lastOp = Op("save", FALSE)
    /\ isDataSaved
    /\ Len(handoffs) = 1
    /\ readers = {}
    /\ Len(savedScans) = 1
    /\ savedScans[1].results = scanResults
    /\ Len(savedScans[1].image) > 0

\* C7: when the read of the image fails, the failure is alerted, no success
\* is alerted and savedScans is left as it was.
C7_EncodeFailureLeavesListUnchanged ==
    [][lastOp' = Op("readerEnds", FALSE) =>
          /\ savedScans' = savedScans
          /\ Len(alerts') = Len(alerts) + 1
          /\ alerts'[Len(alerts')].text = "Failed to save scan data."]_vars

\* C8: savedScans changes only when a read ends, and then by one new entry in
\* front of the unchanged old ones; its timestamps never increase from front
\* to back; and it never holds more entries than reads have ended.
C8_SavedScansOnlyGrowAtTheFront ==
    /\ [][savedScans' # savedScans =>
             /\ lastOp'.op = "readerEnds"
             /\ Len(savedScans') = Len(savedScans) + 1
             /\ Tail(savedScans') = savedScans]_vars
    /\ [](\A i, j \in 1..Len(savedScans) :
             i < j => savedScans[i].timestamp >= savedScans[j].timestamp)
    /\ [](Len(savedScans) <= Len(handoffs) - Cardinality(readers))

\* Two scans were saved at different times; the later one is first.
C8_Witness ==
    /\ Len(savedScans) = 2
    /\ savedScans[1].timestamp > savedScans[2].timestamp
    /\ savedScans[1].results # savedScans[2].results
    /\ ~mounted

\* C9: never more than one object URL is live, also inside a handler; the
\* only live one is the preview of the staged file, so none is live once the
\* file is cleared or the scan view is unmounted; staging an image over a
\* staged one revokes the old URL and creates one new URL.
C9_AtMostOnePreviewLive ==
    /\ [](/\ peakLive <= 1
          /\ Cardinality(liveUrls) <= 1
          /\ liveUrls = (IF filePreviewUrl = noUrl THEN {} ELSE {filePreviewUrl})
          /\ (uploadedFile = null <=> filePreviewUrl = noUrl)
          /\ (~mounted => liveUrls = {}))
    /\ [][lastOp' = [op |-> "stage", ok |-> TRUE, had |-> TRUE] =>
             /\ filePreviewUrl # noUrl
             /\ filePreviewUrl \notin liveUrls'
             /\ filePreviewUrl' # filePreviewUrl
             /\ liveUrls' = {filePreviewUrl'}
             /\ nextUrl' = nextUrl + 1]_vars

\* A second image was staged over a staged one: the first URL is revoked, the
\* second is live, and no two were live together.
C9_Witness ==
    /\ lastOp = [op |-> "stage", ok |-> TRUE, had |-> TRUE]
    /\ nextUrl = 3
    /\ liveUrls = {createObjectURL(2)}
    /\ peakLive = 1

\* The machine is Idle: no file, no results, nothing shown, no analysis awaited.
Idle == uploadedFile = null /\ scanResults = null /\ ~showResults /\ ~isScanning

countersShown == shown.showResults /\ shown.scanResults # null

\* The animate closure a hook requested last
newest(h) == h.loops[Len(h.loops)]

\* C11: while results are shown every displayed count lies between 0 and the
\* true count; a render that shows results or changes the shown results starts
\* every counter whose target changed from 0; after each frame the count is
\* floor(lerp(0, target, min(elapsed / duration, 1))); and a counter whose
\* animation is over shows its target.
C11_CountersAnimateFromZero ==
    /\ [](countersShown =>
             \A c \in Categories :
                 /\ counters[c].count >= 0
                 /\ counters[c].count <= countOf(shown.scanResults, c))
    /\ [][(countersShown' /\ shown' # shown) =>
             \A c \in Categories :
                 counters'[c].target # counters[c].target =>
                     newest(counters'[c]).startCount = 0]_vars
    /\ [][(countersShown /\ timestamp' # timestamp) =>
             \A c \in Categories :
                 counters[c].loops # <<>> =>
                     LET l == withStartTime(newest(counters[c]), timestamp')
                     IN  counters'[c].count =
                             floor(lerp(0, counters[c].target, progress(l, timestamp')))]_vars
    /\ [](\A c \in Categories :
             counters[c].loops = <<>> => counters[c].count = counters[c].target)

\* C12: what normalizeAngle returns lies in (-pi, pi], so it is never -pi, and
\* differs from the argument by a whole number of turns.
C12_NormalizeAngleInHalfOpenInterval ==
    angleResult.returned =>
        /\ -PI < angleResult.value
        /\ angleResult.value <= PI
        /\ (angleResult.value - angleArg) % (PI * 2) = 0

\* C13: a tick of the mounted SwimCanvas that finds no drawing context leaves
\* a frame request pending, so that the tick loop goes on.
C13_TickLoopSurvivesMissingSurface ==
    [][(ticks' = ticks + 1 /\ swimMounted /\ ~flockOp'.ok) => rafPending' # {}]_vars

\* C14: while SwimCanvas is not mounted no frame request is pending and no
\* resize listener is attached, so no tick runs and no resize initializes the
\* engine after the clean-up; at any time at most one frame request is pending
\* and at most one listener attached; and a resize leaves the frame requests
\* as they are.
C14_TeardownStopsTheTickLoop ==
    /\ [](~swimMounted => (rafPending = {} /\ listeners = {}))
    /\ [](Cardinality(rafPending) <= 1 /\ Cardinality(listeners) <= 1)
    /\ [][ticks' # ticks => swimMounted]_vars
    /\ [][setups' # setups => (swimMounted' /\ flockOp'.op \in {"mount", "resize"})]_vars
    /\ [][flockOp'.op = "resize" =>
             UNCHANGED <<rafPending, animationFrameId, nextRafId, listeners>>]_vars

\* SwimCanvas was torn down after a resize and a drawn frame, while the
\* request of the next frame was pending.
C14_Witness ==
    /\ flockOp.op = "unmount"
    /\ ~swimMounted
    /\ ticks >= 1
    /\ setups >= 2
    /\ animationFrameId = nextRafId - 1
    /\ animationFrameId >= 2
    /\ rafPending = {}

\* The seeds whose setupCanvas call can have created the leaders at hand
seedsOfLeaders == {seed \in Seeds : leaders = newLeaders(seed)}

\* C15: every fish's leaderIndex is an index of leadersRef.current (0-based);
\* leaders and school are both empty or hold 3 leaders and 70 fish that one
\* setupCanvas call created together; and they change only together, in a
\* mount or resize step, or the school alone in a tick that keeps each
\* fish's leader.
C15_LeaderIndexIsValid ==
    /\ [](\A i \in 1..Len(school) :
             /\ school[i].leaderIndex >= 0
             /\ school[i].leaderIndex < Len(leaders))
    /\ [](\/ leaders = <<>> /\ school = <<>>
          \/ /\ Len(leaders) = numLeaders
             /\ Len(school) = numFish
             /\ \E seed \in seedsOfLeaders :
                    \A i \in 1..numFish :
                        /\ school[i].leaderIndex = newSchool(seed)[i].leaderIndex
                        /\ school[i].turnSpeed = newSchool(seed)[i].turnSpeed)
    /\ [][leaders' # leaders =>
             /\ flockOp'.op \in {"mount", "resize"}
             /\ \E seed \in Seeds : leaders' = newLeaders(seed) /\ school' = newSchool(seed)]_vars
    /\ [][(school' # school /\ leaders' = leaders) =>
             /\ flockOp'.op \in {"tick", "mount", "resize"}
             /\ Len(school') = Len(school)
             /\ \A i \in 1..Len(school) : school'[i].leaderIndex = school[i].leaderIndex]_vars

\* Two frames were drawn by an engine that its mount and a resize initialized,
\* and they turned the fish; fish follow each of the three leaders.
C15_Witness ==
    /\ flockOp = [op |-> "tick", ok |-> TRUE]
    /\ ticks = 2
    /\ setups = 2
    /\ mounts = 1
    /\ Len(school) = numFish
    /\ \A j \in 0..(numLeaders - 1) : \E i \in 1..numFish : school[i].leaderIndex = j
    /\ school # newSchool(CHOOSE seed \in seedsOfLeaders : TRUE)

\* C17: the heading of every fish lies in (-pi, pi], after setupCanvas and
\* after every update of animate.
C17_HeadingsStayNormalized ==
    \A i \in 1..Len(school) : -PI < school[i].angle /\ school[i].angle <= PI

\* C16: whenever the show timer of an analysis that returned results brings
\* the scan view from not showing to showing results, isDataSaved is false.
C16_ShownResultsCanBeSaved ==
    [][(lastOp'.op = "showTimerFires" /\ lastOp'.ok /\ ~showResults /\ showResults'
            /\ scanResults' # null) => ~isDataSaved']_vars

\* C18: a scan view that is Idle, as it is after resetScan, stays Idle until
\* a file is staged, whatever analysis or show timer completes meanwhile.
C18_ResetIsStable ==
    [][(mounted /\ Idle /\ lastOp'.op # "stage") => Idle']_vars

\* C19: while results are shown, scanResults and the staged file are present
\* and isScanning is false.
C19_ShownResultsHaveResultsAndFile ==
    showResults => (scanResults # null /\ uploadedFile # null /\ ~isScanning)

\* C20: after every accepted startScan whose delay ends before the clock
\* stops, isScanning becomes false again.
C20_AnalyzingEventuallyEnds ==
    (lastOp = Op("startScan", TRUE) /\ isScanning /\ now + ScanDelay <= MaxTime)
        ~> ~isScanning
====
